---- MODULE Spec2Model ----
(***************************************************************************)
(* A model of gdeep.visualisation.Visualiser (visualiser.py): the          *)
(* orchestrator that pulls samples from the pipeline's first data loader,  *)
(* asks the ModelExtractor for activations, and appends records to the     *)
(* pipeline's dashboard writer.                                            *)
(*                                                                         *)
(* Every public method is one action.  A method that raises is an action   *)
(* too: the effects it had before the exception stay, and the call is      *)
(* logged with the exception's name.  The writer is modelled by the log of *)
(* the calls made on it (add_graph, add_image, add_images, add_embedding,  *)
(* add_figure, flush), in order.                                           *)
(***************************************************************************)
EXTENDS Integers, Sequences, FiniteSets, TLC

\* ------------------------------------------------------------------ bounds

\* Small data loaders hold 0..MaxN samples.
MaxN == 2
\* The model has 0..MaxLayers layers whose activations are extracted.
MaxLayers == 2
\* Number of Visualiser method calls in one run.
MaxCalls == 2

\* ------------------------------------------------------- program constants

\* plot_data_model: "if index == 1000: break"
SampleCap == 1000
\* plot_activations: "if j == 100: break"
ActivationsBreak == 100
\* plot_persistence_diagrams: "if j == 100: break"
DiagramsBreak == 100
\* betti_plot_layers: "dataset.data[:100]"
BettiSlice == 100

\* ---------------------------------------------------------------- values

\* Python's None for an optional value, and a present value.
None == {}
Some(v) == {v}

\* The dtype of the "example" argument; "None" when it is not passed.
Dtypes == {"None", "torch.int64"}

\* Interpreter.method of the Interpreter objects handed to the plot methods.
Methods == {"IntegratedGradients", "Saliency"}

\* The homology_dimension arguments tried on betti_plot_layers.
HomologyArgs == {None, Some(<<2>>), Some(<<0, 1, 2>>)}

Min(a, b) == IF a < b THEN a ELSE b

\* str(i) of a non-negative int: its decimal digits.
Digits == <<"0", "1", "2", "3", "4", "5", "6", "7", "8", "9">>

RECURSIVE str(_)
str(i) == IF i < 10 THEN Digits[i + 1] ELSE str(i \div 10) \o Digits[(i % 10) + 1]

VARIABLES
    dataloader,             \* pipe.dataloaders[0]: samples, batch size, sample rank
    nlayers,                \* number of tensors get_activations returns for pipe.model
    persistence_diagrams,   \* self.persistence_diagrams: None or the diagram set
    writer,                 \* pipe.writer: the calls made on it, in order
    get_activations_calls,  \* number of ModelExtractor.get_activations calls so far
    calls,                  \* the Visualiser method calls made so far, in order
    x,                      \* the tensor handed to _adjust_tensors_to_plot
    outs                    \* the results of applying _adjust_tensors_to_plot repeatedly

vars == <<dataloader, nlayers, persistence_diagrams, writer,
          get_activations_calls, calls, x, outs>>

visualiser_vars == <<dataloader, nlayers, persistence_diagrams, writer,
                     get_activations_calls, calls>>

adjust_vars == <<x, outs>>

\* ------------------------------------------------------------------ tensors
\* A tensor is its shape and its entries, indexed from 0 as in Python:
\* [shape |-> <<2, 3>>, data |-> [idx \in Indices(<<2, 3>>) |-> value]].
\* Axes are numbered from 1 here (Python's axis k is axis k + 1).

\* Tensors handed to _adjust_tensors_to_plot have extents 1..MaxDim on the
\* channel and spatial axes, 1..MaxB on a leading batch axis and on the
\* trailing axis of a 5-axis tensor, and are applied at most MaxApply times.
MaxDim == 7
MaxB == 2
MaxApply == 2

RECURSIVE Indices(_)
Indices(shape) ==
    IF shape = <<>> THEN {<<>>}
    ELSE {<<i>> \o rest : i \in 0..(shape[1] - 1), rest \in Indices(Tail(shape))}

\* The entry of an input tensor at idx: a positive number that names idx, so
\* that every entry of an input differs from every other and from 0.
RECURSIVE InputValue(_)
InputValue(idx) ==
    IF idx = <<>> THEN 1 ELSE idx[1] + 10 * InputValue(Tail(idx))

InputTensor(shape) ==
    [shape |-> shape, data |-> [idx \in Indices(shape) |-> InputValue(idx)]]

Shapes3 == {<<a, b, c>> : a \in 1..MaxDim, b \in 1..MaxDim, c \in 1..MaxDim}

Shapes4 == {<<n>> \o s : n \in 1..MaxB, s \in Shapes3}

Shapes5 == {<<n, a, b, c, d>> : n \in 1..MaxB, a \in 1..MaxB, b \in 1..MaxB,
                                c \in 1..MaxB, d \in 1..MaxB}

Perms(n) == {p \in [1..n -> 1..n] : \A i \in 1..n : \A j \in 1..n : p[i] = p[j] => i = j}

Reverse(s) == [i \in 1..Len(s) |-> s[Len(s) + 1 - i]]

\* tensor.permute(*dims): axis k of the result is axis dims[k] of the tensor.
permute(t, dims) ==
    LET n == Len(t.shape)
        shape == [k \in 1..n |-> t.shape[dims[k]]]
        source(idx) == [a \in 1..n |-> idx[CHOOSE k \in 1..n : dims[k] = a]]
    IN [shape |-> shape, data |-> [idx \in Indices(shape) |-> t.data[source(idx)]]]

\* torch.argsort(torch.tensor(shape)): the axes in ascending order of extent.
\* The sort is not stable (stable=False is the default), so axes of equal
\* extent come out in any order.
argsort(shape) ==
    {p \in Perms(Len(shape)) :
        \A i \in 1..(Len(shape) - 1) : shape[p[i]] <= shape[p[i + 1]]}

\* tensor[0, :, :, :] of a 4-axis tensor, tensor[0, :, :, :, 0] of a 5-axis
\* one; a 3-axis tensor is left as it is.
select_first(t) ==
    IF Len(t.shape) = 4
    THEN LET shape == Tail(t.shape)
         IN [shape |-> shape,
             data |-> [idx \in Indices(shape) |-> t.data[<<0>> \o idx]]]
    ELSE IF Len(t.shape) > 4
    THEN LET shape == SubSeq(t.shape, 2, 4)
         IN [shape |-> shape,
             data |-> [idx \in Indices(shape) |-> t.data[<<0>> \o idx \o <<0>>]]]
    ELSE t

\* list_of_permutation with the reverse() forgotten: axes stay ascending.
list_of_permutation_unreversed(sorted) == sorted

\* list_of_permutation after list_of_permutation.reverse()
list_of_permutation(sorted) == Reverse(sorted)

\* pad_or_truncate with the 2-entry case lost: every final axis is only cut.
pad_or_truncate_never_pads(t) ==
    LET shape == <<t.shape[1], t.shape[2], Min(t.shape[3], 4)>>
    IN [shape |-> shape, data |-> [idx \in Indices(shape) |-> t.data[idx]]]

\* pad_or_truncate cutting to 3 entries (tensor[:, :, :3]) instead of 4.
pad_or_truncate_cuts_to_3(t) ==
    IF t.shape[3] = 2
    THEN LET shape == <<t.shape[1], t.shape[2], 3>>
         IN [shape |-> shape,
             data |-> [idx \in Indices(shape) |->
                          IF idx[3] < 2 THEN t.data[idx] ELSE 0]]
    ELSE LET shape == <<t.shape[1], t.shape[2], Min(t.shape[3], 3)>>
         IN [shape |-> shape, data |-> [idx \in Indices(shape) |-> t.data[idx]]]

\* A final axis of 2 entries gets a third, zero, entry; any other final axis
\* is cut to its first 4 entries (tensor[:, :, :4]).
pad_or_truncate(t) ==
    IF t.shape[3] = 2
    THEN LET shape == <<t.shape[1], t.shape[2], 3>>
         IN [shape |-> shape,
             data |-> [idx \in Indices(shape) |->
                          IF idx[3] < 2 THEN t.data[idx] ELSE 0]]
    ELSE LET shape == <<t.shape[1], t.shape[2], Min(t.shape[3], 4)>>
         IN [shape |-> shape, data |-> [idx \in Indices(shape) |-> t.data[idx]]]

\* Visualiser._adjust_tensors_to_plot, given the outcome `sorted` of argsort.
adjust_tensors_to_plot(tensor, sorted) ==
    LET t1 == select_first(tensor)
        t2 == permute(t1, list_of_permutation(sorted))
        t3 == pad_or_truncate(t2)
    IN permute(t3, <<2, 1, 3>>)

\* The tensor the next application of _adjust_tensors_to_plot is given.
Current == IF outs = <<>> THEN x ELSE outs[Len(outs)]

\* One call of _adjust_tensors_to_plot, on the input or on the last result.
Adjust ==
    /\ Len(outs) < MaxApply
    /\ \E sorted \in argsort(select_first(Current).shape) :
          outs' = Append(outs, adjust_tensors_to_plot(Current, sorted))
    /\ UNCHANGED <<x, visualiser_vars>>

InitVisualiser ==
    /\ dataloader = [n |-> 0, batch_size |-> 1, sample_rank |-> 1]
    /\ nlayers = 0
    /\ persistence_diagrams = None
    /\ writer = <<>>
    /\ get_activations_calls = 0
    /\ calls = <<>>

InitAdjust ==
    /\ InitVisualiser
    /\ x \in {InputTensor(s) : s \in Shapes3 \cup Shapes4 \cup Shapes5}
    /\ outs = <<>>

NextAdjust == Adjust

SpecAdjust == InitAdjust /\ [][NextAdjust]_vars

\* ------------------------------------------------------------ collaborators

\* plot_data_model: "max_number = min(1000, len(labels_list))"
MaxNumberCap == 1000

\* One call made on pipe.writer: the method, the tag, the rows and labels of
\* an embedding (or the images of an image batch), what the record was built
\* from, and the shape of a figure's image.
Entry(call, tag) ==
    [call |-> call, tag |-> tag, rows |-> 0, nlabels |-> 0, data |-> None, img |-> <<>>]

Flush == Entry("flush", "")

\* The data loaders tried: small ones of token vectors (sample rank 1) in
\* batches of 1 or 2, small ones of images (sample rank 3) in batches of 1,
\* and large ones of token vectors, in batches of 1, at and just over the
\* caps of the sampling loops.
Loaders ==
    {[n |-> n, batch_size |-> b, sample_rank |-> 1] : n \in 0..MaxN, b \in {1, 2}}
    \cup {[n |-> n, batch_size |-> 1, sample_rank |-> 3] : n \in 0..MaxN}
    \cup {[n |-> c + k, batch_size |-> 1, sample_rank |-> 1] :
            c \in {ActivationsBreak, SampleCap}, k \in {0, 1}}

\* The number of batches a loader yields (the last batch may be short).
NumBatches(dl) == (dl.n + dl.batch_size - 1) \div dl.batch_size

\* The values of j for which the body of
\*     for j, item in enumerate(loader): ...; if j == brk: break
\* runs, over a loader of nb batches.
Enumerated(nb, brk) == {j \in 0..(nb - 1) : j <= brk}

\* The values of index for which the body of plot_data_model's loop
\*     for img, lab in dataiter: index += 1; ...; if index == 1000: break
\* runs, over the `remaining` batches left in dataiter.
DataModelLoop(remaining) == {index \in 1..remaining : index <= SampleCap}

\* inputs.to(example.dtype) when an example is passed.
Cast(inputs, example) ==
    IF example # "None" THEN [inputs EXCEPT !.dtype = example] ELSE inputs

\* ModelExtractor.get_activations: one activation tensor per layer, each
\* with one row per input.
get_activations(inputs) ==
    [i \in 1..nlayers |->
        [layer |-> i - 1, rows |-> inputs.rows, dtype |-> inputs.dtype,
         source |-> inputs.source]]

\* persistence_diagrams_of_activations: one diagram per layer.
persistence_diagrams_of_activations(activ) ==
    [i \in 1..Len(activ) |-> [diagram_of |-> activ[i]]]

\* The Interpreter objects handed to the plot methods: their method name,
\* their input x and its attribution.
Interpreter(m) ==
    LET shape == IF m = "Saliency" THEN <<1, 2, 3, 4>> ELSE <<1, 1, 2, 3>>
    IN [method |-> m, x |-> InputTensor(shape), attribution |-> InputTensor(shape)]

Interpreters == {Interpreter(m) : m \in Methods}

\* ---------------------------------------------------------------- methods

\* The log entry of a call of method op that starts now.
NewCall(op) ==
    [op |-> op, homology_dimension |-> None, compact |-> FALSE,
     method |-> "", raised |-> "", extractions |-> 0, wfrom |-> Len(writer),
     plotted |-> <<>>]

\* The cache test with the cache never consulted: the set is always recomputed.
cache_is_empty_always(pd) == TRUE

\* "if self.persistence_diagrams is None"
cache_is_empty(pd) == pd = None

\* The inputs plot_activations stacks: item[0][0] of up to 101 batches.
activation_inputs(dl) ==
    [rows |-> Cardinality(Enumerated(NumBatches(dl), ActivationsBreak)),
     dtype |-> "native", source |-> "dataloader"]

\* The inputs plot_persistence_diagrams stacks: item[0][0] of up to 101 batches.
diagram_inputs(dl) ==
    [rows |-> Cardinality(Enumerated(NumBatches(dl), DiagramsBreak)),
     dtype |-> "native", source |-> "dataloader"]

\* The inputs of betti_plot_layers: dataset.data[:100].
betti_inputs(dl) ==
    [rows |-> Cardinality({i \in 0..(dl.n - 1) : i < BettiSlice}),
     dtype |-> "native", source |-> "dataset"]

plot_data_model ==
    /\ Len(calls) < MaxCalls
    /\ LET call == NewCall("plot_data_model")
           nb == NumBatches(dataloader)
       IN IF nb = 0
          THEN \* next(dataiter) raises StopIteration
               /\ writer' = writer
               /\ calls' = Append(calls, [call EXCEPT !.raised = "StopIteration"])
          ELSE LET graph == Append(writer, Entry("add_graph", ""))
                   labels_list == Cardinality(DataModelLoop(nb - 1))
                   max_number == Min(MaxNumberCap, labels_list)
                   embedding == [Entry("add_embedding", "dataset") EXCEPT
                                    !.rows = max_number, !.nlabels = labels_list]
               IN IF labels_list = 0
                  THEN \* torch.cat of an empty list raises RuntimeError
                       /\ writer' = graph
                       /\ calls' = Append(calls, [call EXCEPT !.raised = "RuntimeError"])
                  ELSE /\ writer' =
                            IF dataloader.sample_rank >= 3
                            THEN graph \o <<Entry("add_image", "dataset"), embedding, Flush>>
                            ELSE graph \o <<embedding, Flush>>
                       /\ calls' = Append(calls, call)
    /\ UNCHANGED <<dataloader, nlayers, persistence_diagrams, get_activations_calls,
                   adjust_vars>>

\* The tag numbered like the progress message ("Step " + str(i + 1)).
activation_tag_of_step(i) == "activations_" \o str(i + 1)

\* tag="activations_" + str(i)
activation_tag(i) == "activations_" \o str(i)

\* What plot_activations's loop over acts does to the writer: for each
\* activation an add_embedding, then a flush.
activation_records(acts, labels) ==
    [k \in 1..(2 * Len(acts)) |->
        IF k % 2 = 1
        THEN [Entry("add_embedding", activation_tag((k - 1) \div 2)) EXCEPT
                 !.rows = acts[(k + 1) \div 2].rows, !.nlabels = labels,
                 !.data = Some(acts[(k + 1) \div 2])]
        ELSE Flush]

plot_activations(example) ==
    /\ Len(calls) < MaxCalls
    /\ LET call == NewCall("plot_activations")
           inputs == activation_inputs(dataloader)
       IN IF inputs.rows = 0
          THEN \* torch.stack of an empty list raises RuntimeError
               /\ writer' = writer
               /\ get_activations_calls' = get_activations_calls
               /\ calls' = Append(calls, [call EXCEPT !.raised = "RuntimeError"])
          ELSE LET acts == get_activations(Cast(inputs, example))
               IN /\ writer' = writer \o activation_records(acts, inputs.rows)
                  /\ get_activations_calls' = get_activations_calls + 1
                  /\ calls' = Append(calls, [call EXCEPT !.extractions = 1])
    /\ UNCHANGED <<dataloader, nlayers, persistence_diagrams, adjust_vars>>

plot_persistence_diagrams(example) ==
    /\ Len(calls) < MaxCalls
    /\ LET call == NewCall("plot_persistence_diagrams")
           miss == cache_is_empty(persistence_diagrams)
           inputs == diagram_inputs(dataloader)
       IN IF miss /\ inputs.rows = 0
          THEN \* torch.stack of an empty list raises RuntimeError
               /\ UNCHANGED <<writer, persistence_diagrams, get_activations_calls>>
               /\ calls' = Append(calls, [call EXCEPT !.raised = "RuntimeError"])
          ELSE LET diagrams ==
                       IF miss
                       THEN persistence_diagrams_of_activations(
                                get_activations(Cast(inputs, example)))
                       ELSE CHOOSE d \in persistence_diagrams : TRUE
                   extractions == IF miss THEN 1 ELSE 0
                   images == [Entry("add_images", "persistence_diagrams_of_activations")
                                 EXCEPT !.rows = Len(diagrams), !.data = Some(diagrams)]
               IN /\ persistence_diagrams' = Some(diagrams)
                  /\ get_activations_calls' = get_activations_calls + extractions
                  /\ IF Len(diagrams) = 0
                     THEN \* torch.stack(list_of_dgms) of an empty list raises
                          /\ writer' = writer
                          /\ calls' = Append(calls, [call EXCEPT
                                          !.extractions = extractions,
                                          !.raised = "RuntimeError"])
                     ELSE /\ writer' = writer \o <<images, Flush>>
                          /\ calls' = Append(calls, [call EXCEPT
                                          !.extractions = extractions])
    /\ UNCHANGED <<dataloader, nlayers, adjust_vars>>

plot_decision_boundary(compact) ==
    /\ Len(calls) < MaxCalls
    /\ LET call == [NewCall("plot_decision_boundary") EXCEPT !.compact = compact]
       IN IF NumBatches(dataloader) = 0
          THEN \* next(iter(...)) raises StopIteration
               /\ writer' = writer
               /\ calls' = Append(calls, [call EXCEPT !.raised = "StopIteration"])
          ELSE /\ writer' =
                    IF compact
                    THEN writer \o <<Entry("add_embedding", "compactified_decision_boundary"),
                                     Flush>>
                    ELSE writer \o <<Entry("add_embedding", "decision_boundary"), Flush>>
               /\ calls' = Append(calls, call)
    /\ UNCHANGED <<dataloader, nlayers, persistence_diagrams, get_activations_calls,
                   adjust_vars>>

\* The caller's homology dimensions handed on as they are.
homology_dimension_as_passed(homology_dimension) == homology_dimension

\* "if homology_dimension is not None: homology_dimension = [0, 1]"
homology_dimension_used(homology_dimension) ==
    IF homology_dimension # None THEN Some(<<0, 1>>) ELSE homology_dimension

betti_plot_layers(homology_dimension, example) ==
    /\ Len(calls) < MaxCalls
    /\ LET call == [NewCall("betti_plot_layers") EXCEPT
                       !.homology_dimension = homology_dimension]
           miss == cache_is_empty(persistence_diagrams)
           extractions == IF miss THEN 1 ELSE 0
           diagrams ==
               IF miss
               THEN persistence_diagrams_of_activations(
                        get_activations(Cast(betti_inputs(dataloader), example)))
               ELSE CHOOSE d \in persistence_diagrams : TRUE
       IN /\ persistence_diagrams' = Some(diagrams)
          /\ get_activations_calls' = get_activations_calls + extractions
          \* plot_betti_surfaces(dgms, ..., homology_dimensions=homology_dimension)
          /\ calls' = Append(calls, [call EXCEPT
                          !.extractions = extractions,
                          !.plotted = <<homology_dimension_used(homology_dimension)>>])
    /\ UNCHANGED <<dataloader, nlayers, writer, adjust_vars>>

\* The record tagged with the screenshot's file name (name = "out.png").
interpreter_text_tag_is_file_name(interpreter) == "out.png"

\* plot_interpreter_text: add_image(interpreter.method, ...)
interpreter_text_tag(interpreter) == interpreter.method

\* plot_interpreter_image: add_figure(interpreter.method, fig)
interpreter_image_tag(interpreter) == interpreter.method

\* plot_feature_importance: add_figure("Feature Importance", fig)
feature_importance_tag(interpreter) == "Feature Importance"

\* plot_attribution: add_figure("Datum x", fig1),
\* add_figure("Generic attribution of x", fig2)
attribution_tags(interpreter) == <<"Datum x", "Generic attribution of x">>

plot_interpreter_text(interpreter) ==
    /\ Len(calls) < MaxCalls
    /\ writer' = Append(writer, Entry("add_image", interpreter_text_tag(interpreter)))
    /\ calls' = Append(calls, [NewCall("plot_interpreter_text") EXCEPT
                                  !.method = interpreter.method])
    /\ UNCHANGED <<dataloader, nlayers, persistence_diagrams, get_activations_calls,
                   adjust_vars>>

plot_interpreter_image(interpreter) ==
    /\ Len(calls) < MaxCalls
    /\ writer' = Append(writer, Entry("add_figure", interpreter_image_tag(interpreter)))
    /\ calls' = Append(calls, [NewCall("plot_interpreter_image") EXCEPT
                                  !.method = interpreter.method])
    /\ UNCHANGED <<dataloader, nlayers, persistence_diagrams, get_activations_calls,
                   adjust_vars>>

plot_feature_importance(interpreter) ==
    /\ Len(calls) < MaxCalls
    /\ writer' = Append(writer, Entry("add_figure", feature_importance_tag(interpreter)))
    /\ calls' = Append(calls, [NewCall("plot_feature_importance") EXCEPT
                                  !.method = interpreter.method])
    /\ UNCHANGED <<dataloader, nlayers, persistence_diagrams, get_activations_calls,
                   adjust_vars>>

plot_attribution(interpreter) ==
    /\ Len(calls) < MaxCalls
    /\ \E sorted_x \in argsort(select_first(interpreter.x).shape) :
       \E sorted_a \in argsort(select_first(interpreter.attribution).shape) :
          LET t1 == adjust_tensors_to_plot(interpreter.x, sorted_x)
              t2 == adjust_tensors_to_plot(interpreter.attribution, sorted_a)
              tags == attribution_tags(interpreter)
          IN writer' = writer \o
                 <<[Entry("add_figure", tags[1]) EXCEPT !.img = t1.shape],
                   [Entry("add_figure", tags[2]) EXCEPT !.img = t2.shape]>>
    /\ calls' = Append(calls, [NewCall("plot_attribution") EXCEPT
                                  !.method = interpreter.method])
    /\ UNCHANGED <<dataloader, nlayers, persistence_diagrams, get_activations_calls,
                   adjust_vars>>

\* Visualiser.__init__ over the pipelines tried: self.persistence_diagrams is
\* None, and nothing was written or extracted yet.
Init ==
    /\ dataloader \in Loaders
    /\ nlayers \in 0..MaxLayers
    /\ persistence_diagrams = None
    /\ writer = <<>>
    /\ get_activations_calls = 0
    /\ calls = <<>>
    /\ x = InputTensor(<<1, 1, 1>>)
    /\ outs = <<>>

Next ==
    \/ plot_data_model
    \/ \E example \in Dtypes : plot_activations(example)
    \/ \E example \in Dtypes : plot_persistence_diagrams(example)
    \/ \E compact \in BOOLEAN : plot_decision_boundary(compact)
    \/ \E hd \in HomologyArgs : \E example \in Dtypes : betti_plot_layers(hd, example)
    \/ \E interpreter \in Interpreters : plot_interpreter_text(interpreter)
    \/ \E interpreter \in Interpreters : plot_interpreter_image(interpreter)
    \/ \E interpreter \in Interpreters : plot_feature_importance(interpreter)
    \/ \E interpreter \in Interpreters : plot_attribution(interpreter)

Spec == Init /\ [][Next]_vars

\* ------------------------------------------------- claims on the Visualiser

Completed(c) == c.raised = ""

\* The writer calls made by the i-th Visualiser call: writer[First(i)..Last(i)].
First(i) == calls[i].wfrom + 1

Last(i) == IF i < Len(calls) THEN calls[i + 1].wfrom ELSE Len(writer)

Appended(i) == [k \in 1..(Last(i) - calls[i].wfrom) |-> writer[calls[i].wfrom + k]]

\* The records among the writer calls of the i-th call (all but the flushes).
Records(i) == SelectSeq(Appended(i), LAMBDA e : e.call # "flush")

C2_AsStated ==
    \A i \in 1..Len(calls) :
        (calls[i].op = "plot_data_model" /\ dataloader.n >= 1)
        => \E k \in 1..Len(Records(i)) :
              /\ Records(i)[k].call = "add_embedding"
              /\ Records(i)[k].tag = "dataset"
              /\ Records(i)[k].rows = Min(1000, dataloader.n)
              /\ Records(i)[k].nlabels = Min(1000, dataloader.n)

\* The tag of the embedding record of layer i, for the layers tried.
TagOfLayer ==
    <<"activations_0", "activations_1", "activations_2", "activations_3",
      "activations_4", "activations_5", "activations_6", "activations_7",
      "activations_8", "activations_9", "activations_10", "activations_11">>

\* C3: a call of plot_activations to which the extractor returned L
\* activations appended exactly L embedding records, the i-th (i = 0..L-1)
\* tagged "activations_<i>" and built from the i-th activation, no two with
\* the same tag, each followed at once by a flush; nothing when L = 0.
C3_OneEmbeddingPerLayer ==
    \A i \in 1..Len(calls) :
        (calls[i].op = "plot_activations" /\ calls[i].extractions = 1)
        => /\ Completed(calls[i])
           /\ Len(Records(i)) = nlayers
           /\ Len(Appended(i)) = 2 * nlayers
           /\ \A k \in 0..(nlayers - 1) :
                 /\ Appended(i)[2 * k + 1].call = "add_embedding"
                 /\ Appended(i)[2 * k + 1].tag = TagOfLayer[k + 1]
                 /\ \A d \in Appended(i)[2 * k + 1].data : d.layer = k
                 /\ Appended(i)[2 * k + 1].data # None
                 /\ Appended(i)[2 * k + 2] = Flush
           /\ \A j \in 1..nlayers : \A k \in 1..nlayers :
                 Records(i)[j].tag = Records(i)[k].tag => j = k

C3_Witness ==
    /\ Len(calls) = 1
    /\ calls[1].op = "plot_activations"
    /\ calls[1].extractions = 1
    /\ nlayers = 2
    /\ Len(writer) = 4
    /\ writer[1].tag = "activations_0" /\ writer[2] = Flush
    /\ writer[3].tag = "activations_1" /\ writer[4] = Flush

\* C4 as stated: over an empty loader plot_data_model, plot_activations and
\* plot_persistence_diagrams each return without raising an exception.
C4_AsStated ==
    \A i \in 1..Len(calls) :
        (/\ dataloader.n = 0
         /\ calls[i].op \in {"plot_data_model", "plot_activations",
                             "plot_persistence_diagrams"})
        => Completed(calls[i])

InterpreterOps ==
    {"plot_interpreter_text", "plot_interpreter_image",
     "plot_feature_importance", "plot_attribution"}

\* Every record the i-th call appended is tagged tag.
AllTagged(i, tag) ==
    /\ Len(Records(i)) >= 1
    /\ \A k \in 1..Len(Records(i)) : Records(i)[k].tag = tag

\* C8 as stated: each of the four interpreter methods tags every record it
\* appends with interpreter.method.
C8_AsStated ==
    \A i \in 1..Len(calls) :
        calls[i].op \in InterpreterOps => AllTagged(i, calls[i].method)

\* C8 as amended: plot_interpreter_text and plot_interpreter_image tag the
\* one record they append with interpreter.method; plot_feature_importance
\* tags its one record "Feature Importance" and plot_attribution tags its two
\* records "Datum x" and "Generic attribution of x", whatever the method.
C8_TagsOfInterpreterPlots ==
    \A i \in 1..Len(calls) :
        /\ calls[i].op \in {"plot_interpreter_text", "plot_interpreter_image"}
              => (Len(Records(i)) = 1 /\ AllTagged(i, calls[i].method))
        /\ calls[i].op = "plot_feature_importance"
              => (Len(Records(i)) = 1 /\ AllTagged(i, "Feature Importance"))
        /\ calls[i].op = "plot_attribution"
              => /\ Len(Records(i)) = 2
                 /\ Records(i)[1].tag = "Datum x"
                 /\ Records(i)[2].tag = "Generic attribution of x"

C8_Witness ==
    /\ Len(calls) = 2
    /\ calls[1].op = "plot_interpreter_text" /\ calls[1].method = "Saliency"
    /\ calls[2].op = "plot_attribution" /\ calls[2].method = "Saliency"
    /\ Len(writer) = 3
    /\ writer[1].tag = "Saliency"
    /\ writer[2].tag = "Datum x"
    /\ writer[3].tag = "Generic attribution of x"

C10_AsStated ==
    [][/\ Len(writer') >= Len(writer)
       /\ SubSeq(writer', 1, Len(writer)) = writer
       /\ (/\ Len(calls') > Len(calls)
           /\ Completed(calls'[Len(calls')])
           /\ Len(writer') > Len(writer))
          => writer'[Len(writer')] = Flush]_vars

\* The two methods that read and fill self.persistence_diagrams.
DiagramOps == {"plot_persistence_diagrams", "betti_plot_layers"}

\* The diagram set pd holds one diagram per layer, each computed from `rows`
\* inputs taken from `source`.
FilledFrom(pd, source, rows) ==
    /\ pd # None
    /\ \A set \in pd :
          /\ Len(set) = nlayers
          /\ \A k \in 1..Len(set) :
                /\ set[k].diagram_of.source = source
                /\ set[k].diagram_of.rows = rows

\* A step that leaves a diagram set that is there as it is, and in which
\* neither of the two methods extracts activations once the set is there.
KeepsTheSet ==
    persistence_diagrams # None
    => /\ persistence_diagrams' = persistence_diagrams
       /\ (/\ Len(calls') > Len(calls)
           /\ calls'[Len(calls')].op \in DiagramOps)
          => /\ calls'[Len(calls')].extractions = 0
             /\ get_activations_calls' = get_activations_calls

\* A step that leaves the set None unless it is a call of one of the two
\* methods.
NoneUntilFirstCall ==
    (/\ persistence_diagrams = None
     /\ Len(calls') > Len(calls)
     /\ calls'[Len(calls')].op \notin DiagramOps)
    => persistence_diagrams' = None

\* A step that is a call of one of the two methods on an instance whose set
\* is None fills it: plot_persistence_diagrams from up to 101 loader samples,
\* betti_plot_layers from the first 100 dataset samples.
FirstCallFills ==
    (/\ persistence_diagrams = None
     /\ Len(calls') > Len(calls)
     /\ calls'[Len(calls')].op \in DiagramOps)
    => /\ calls'[Len(calls')].extractions = 1
       /\ calls'[Len(calls')].op = "plot_persistence_diagrams"
             => FilledFrom(persistence_diagrams', "dataloader",
                           Min(101, NumBatches(dataloader)))
       /\ calls'[Len(calls')].op = "betti_plot_layers"
             => FilledFrom(persistence_diagrams', "dataset",
                           Min(100, dataloader.n))

\* C11 as stated: self.persistence_diagrams is write-once over any sequence
\* of calls: it stays None until the first call of plot_persistence_diagrams
\* or betti_plot_layers, that first call fills it (from up to 101 loader
\* samples, or from the first 100 dataset samples), and from then on no call
\* resets or replaces it, and a later call of either of the two methods,
\* whatever its example argument, extracts no activations.
C11_AsStated == [][NoneUntilFirstCall /\ FirstCallFills /\ KeepsTheSet]_vars

\* The part of C11 that does not depend on the first call returning: the
\* set stays None until a call of one of the two methods, a first call that
\* does not raise on an empty loader fills it as C11 says, and a set that is
\* there is never reset or replaced and is reused without any extraction.
C11_WriteOnceOnceFilled ==
    [][/\ NoneUntilFirstCall
       /\ KeepsTheSet
       /\ (persistence_diagrams' # None \/ NumBatches(dataloader) > 0)
             => FirstCallFills]_vars

\* --------------------------------------- claims on _adjust_tensors_to_plot

\* The final axis of t has 3 entries and the third is zero everywhere.
ThirdChannelZero(t) ==
    /\ t.shape[3] = 3
    /\ \A idx \in Indices(t.shape) : idx[3] = 2 => t.data[idx] = 0

\* x is a 4-axis tensor of shape (B, c, H, W), and the function was applied.
AppliedToBcHW(c) == Len(outs) >= 1 /\ Len(x.shape) = 4 /\ x.shape[2] = c

\* C5 as stated: for every input of shape (B,2,H,W) with B,H,W >= 1 the
\* result's final axis has size 3 and its third channel is all zero.
C5_AsStated == AppliedToBcHW(2) => ThirdChannelZero(outs[1])

\* C5 as amended: for every input of shape (B,2,H,W) with B >= 1 and
\* H,W >= 2 the result's final axis has size exactly 3 and its third
\* channel (index 2 of the final axis) is all zero.
C5_PaddedToThree ==
    (AppliedToBcHW(2) /\ x.shape[3] >= 2 /\ x.shape[4] >= 2)
        => ThirdChannelZero(outs[1])

C5_Witness ==
    /\ AppliedToBcHW(2)
    /\ x.shape = <<2, 2, 3, 4>>
    /\ outs[1].shape = <<3, 4, 3>>
    /\ ThirdChannelZero(outs[1])

\* The entries of channel c of the input's channel axis (batch entry 0).
InputChannel(c) ==
    {x.data[idx] : idx \in {i \in Indices(x.shape) : i[1] = 0 /\ i[2] = c}}

\* The entries of t at index c of its final axis.
FinalAxisEntry(t, c) ==
    {t.data[idx] : idx \in {i \in Indices(t.shape) : i[3] = c}}

\* The final axis of t has 4 entries, entry c holding the input's channel c.
HoldsChannels0To3(t) ==
    /\ t.shape[3] = 4
    /\ \A c \in 0..3 : FinalAxisEntry(t, c) = InputChannel(c)

\* C6 as stated: for every input of shape (B,5,H,W) with B,H,W >= 1 the
\* result's final axis has size 4 and holds channels 0..3 of the input's
\* channel axis, channel 4 discarded.
C6_AsStated == AppliedToBcHW(5) => HoldsChannels0To3(outs[1])

\* C6 as amended: for every input of shape (B,5,H,W) with B >= 1, the
\* result's final axis has size exactly 4 when H,W >= 4, and it holds
\* channels 0..3 of the input's channel axis, channel 4 discarded, when
\* H,W > 5 (the channel axis is then the one of least extent).
C6_TruncatedToFour ==
    AppliedToBcHW(5) =>
        /\ (x.shape[3] >= 4 /\ x.shape[4] >= 4) => outs[1].shape[3] = 4
        /\ (x.shape[3] > 5 /\ x.shape[4] > 5) => HoldsChannels0To3(outs[1])

C6_Witness ==
    /\ AppliedToBcHW(5)
    /\ x.shape = <<2, 5, 6, 7>>
    /\ outs[1].shape = <<6, 7, 4>>
    /\ HoldsChannels0To3(outs[1])
    /\ InputChannel(4) \cap {outs[1].data[idx] : idx \in Indices(outs[1].shape)} = {}

MinExtent(shape) == CHOOSE m \in {shape[k] : k \in 1..Len(shape)} :
                        \A k \in 1..Len(shape) : m <= shape[k]

\* t is u with its axes reordered: same entries, none added, dropped or changed.
AxisPermutationOf(t, u) ==
    \E p \in Perms(Len(u.shape)) :
        LET v == permute(u, p)
        IN /\ \A k \in 1..Len(u.shape) : v.shape[k] = t.shape[k]
           /\ Len(t.shape) = Len(u.shape)
           /\ \A idx \in Indices(t.shape) : v.data[idx] = t.data[idx]

\* Applying the function to its own output returned that output unchanged.
Reapplied == \A i \in 2..Len(outs) : outs[i] = outs[i - 1]

\* No two axes of more than one entry have the same extent.
NoTie(shape) ==
    \A i \in 1..Len(shape) : \A j \in 1..Len(shape) :
        (i # j /\ shape[i] = shape[j]) => shape[i] = 1

\* C7 as stated: on every 3-axis input whose smallest axis has at most 4
\* entries the result is an axis permutation of the input, and applying the
\* function to its own result returns that result unchanged.
C7_AsStated ==
    (Len(x.shape) = 3 /\ MinExtent(x.shape) <= 4 /\ Len(outs) >= 1)
        => (AxisPermutationOf(outs[1], x) /\ Reapplied)

\* C7 as amended: on every 3-axis input whose smallest axis has 1, 3 or 4
\* entries the result is an axis permutation of the input (same entries, none
\* added, dropped or changed); and when moreover no two axes of more than one
\* entry have the same extent, applying the function to its own result
\* returns that result unchanged.
C7_IdempotentWithoutPadding ==
    (Len(x.shape) = 3 /\ MinExtent(x.shape) \in {1, 3, 4} /\ Len(outs) >= 1)
        => /\ AxisPermutationOf(outs[1], x)
           /\ NoTie(x.shape) => Reapplied

C7_Witness ==
    /\ x.shape = <<3, 6, 5>>
    /\ Len(outs) = 2
    /\ outs[1].shape = <<5, 6, 3>>
    /\ outs[2] = outs[1]
    /\ AxisPermutationOf(outs[1], x)

====
